---- MODULE Spec2Model ----
(***************************************************************************)
(* EasyBook (src/app.py): the booking engine of the Flask application.     *)
(*                                                                         *)
(* Time is counted in minutes.  A date is a day number (date 0 is a        *)
(* Monday), a time of day is a minute 0..1439 and a datetime is            *)
(* date * 1440 + minute.  A Python None time is the value NoTime.          *)
(*                                                                         *)
(* Strings that the handlers parse are kept as the sequence of their       *)
(* fields: a time string "HH:MM" is <<h, m>>, "" is <<>>, a string without *)
(* a colon is <<h>>; a date string "YYYY-MM-DD" of date d is <<d>>, the    *)
(* same instant written "YYYY-MM-DDT00:00" is <<d, 0>>, a datetime string  *)
(* "YYYY-MM-DDTHH:MM" is <<d, minute>>, and <<-1>> is a string that        *)
(* fromisoformat rejects.                                                  *)
(***************************************************************************)
EXTENDS Integers, Sequences, FiniteSets, TLC

VARIABLES now, appts, next_appt_id, business_hours, overrides, pc, pending, resp

vars == <<now, appts, next_appt_id, business_hours, overrides, pc, pending, resp>>

-----------------------------------------------------------------------------
(* Program constants *)

APPT_MINUTES == 30
SLOT_STEP_MINUTES == 30
WINDOW_DAYS == 60

MinutesPerDay == 24 * 60
NoTime == 0 - 1

(* Bounds of the model *)

MaxAppts == 2

Sessions == {1, 2}
Weekdays == 0 .. 6

T0900 == 9 * 60
T0930 == 9 * 60 + 30
T1000 == 10 * 60
T1700 == 17 * 60

DT(date, minute) == date * MinutesPerDay + minute

(* The instants the clock is observed at: Monday 08:00, Monday 09:10 and   *)
(* Tuesday 08:00.                                                          *)
ClockPoints == {DT(0, 8 * 60), DT(0, T0900 + 10), DT(1, 8 * 60)}

(* Dates the business writes overrides for: the first Monday and a Monday  *)
(* that lies after the scan window.                                        *)
OverrideDates == {0, 63}

(* The override forms: closed, open 09:30-10:00, open with no end time,    *)
(* and open with the two times exchanged.                                  *)
OverrideForms ==
    { [closed |-> TRUE, start |-> <<>>, end |-> <<>>],
      [closed |-> FALSE, start |-> <<9, 30>>, end |-> <<10, 0>>],
      [closed |-> FALSE, start |-> <<9, 30>>, end |-> <<>>],
      [closed |-> FALSE, start |-> <<10, 0>>, end |-> <<9, 30>>] }

(* The hours forms: the weekdays ticked closed, and the start and end time *)
(* strings entered for the weekdays.  The first leaves the times as they   *)
(* are and closes the weekend, the second opens Monday alone, 09:30-10:00, *)
(* the third opens Monday alone with the two times exchanged.              *)
HoursForms ==
    { [closed |-> {5, 6}, start |-> <<>>, end |-> <<>>],
      [closed |-> Weekdays \ {0}, start |-> <<9, 30>>, end |-> <<10, 0>>],
      [closed |-> Weekdays \ {0}, start |-> <<10, 0>>, end |-> <<9, 30>>] }

(* date strings of the override form. *)
OverrideDateStrs == {<<0 - 1>>} \cup {<<d>> : d \in OverrideDates}

(* start_at strings of the booking form: none, an unparsable one, Monday   *)
(* 09:15 and Monday 09:30.                                                 *)
StartStrs == {<<>>, <<0 - 1>>, <<0, T0900 + 15>>, <<0, T0930>>}

(* The sessions and start_at strings of the requests taken one at a time.  *)
OneSession == {1}
OneStartStrs == {<<>>, <<0 - 1>>, <<0, T0930>>}

(* date arguments of a booking POST. *)
PostDateArgs == {<<>>}

(* date arguments of the booking page. *)
DateArgs == {<<>>, <<0 - 1>>, <<0>>, <<0, 0>>, <<1>>, <<63>>}

-----------------------------------------------------------------------------
(* Clock and string helpers *)

DateOf(dt) == dt \div MinutesPerDay

weekday(d) == d % 7

isoformat(d) == <<d>>

IsIso(s) == Len(s) \in {1, 2} /\ s[1] >= 0

fromisoformat(s) == IF Len(s) = 1 THEN DT(s[1], 0) ELSE DT(s[1], s[2])

parse_time_or_none(value) ==
    IF Len(value) < 2 THEN NoTime ELSE value[1] * 60 + value[2]

InSeq(x, s) == \E i \in 1 .. Len(s) : s[i] = x

-----------------------------------------------------------------------------
(* book(): the data preloaded at the start of a request (lines 203-245) *)

range_end(today) == today + WINDOW_DAYS

(* ov_by_date: the override rows whose date lies in [today, today + 60]. *)
ov_by_date_of(ovs, today) ==
    [d \in {x \in DOMAIN ovs : x >= today /\ x <= range_end(today)} |-> ovs[d]]

(* bh_by_weekday: every business-hours row, keyed by weekday. *)
bh_by_weekday_of(bhs) == bhs

(* appts: the scheduled appointments that start in the scan range. *)
appts_in_range(all_appts, today) ==
    {a \in all_appts : /\ a.status = "scheduled"
                       /\ a.start_at >= DT(today, 0)
                       /\ a.start_at < DT(range_end(today) + 1, 0)}

(* booked_starts_by_date: date -> set of booked start instants. *)
booked_starts_by_date_of(all_appts, today) ==
    LET loaded == appts_in_range(all_appts, today)
    IN  [d \in {DateOf(a.start_at) : a \in loaded} |->
            {a.start_at : a \in {b \in loaded : DateOf(b.start_at) = d}}]

-----------------------------------------------------------------------------
(* book(): the helpers (lines 250-306) *)

(* is_open_day reading the weekly hours alone. *)
is_open_day_weekly_only(ov_by_date, bh_by_weekday, day_date) ==
    IF weekday(day_date) \notin DOMAIN bh_by_weekday THEN FALSE
    ELSE LET bh == bh_by_weekday[weekday(day_date)]
         IN  ~bh.is_closed /\ bh.end_time > bh.start_time

is_open_day(ov_by_date, bh_by_weekday, day_date) ==
    IF day_date \in DOMAIN ov_by_date
    THEN LET ov == ov_by_date[day_date]
         IN  IF ov.is_closed THEN FALSE
             ELSE IF \/ ov.start_time = NoTime
                     \/ ov.end_time = NoTime
                     \/ ov.end_time <= ov.start_time THEN FALSE
             ELSE TRUE
    ELSE IF weekday(day_date) \notin DOMAIN bh_by_weekday THEN FALSE
    ELSE LET bh == bh_by_weekday[weekday(day_date)]
         IN  IF bh.is_closed THEN FALSE
             ELSE IF bh.end_time <= bh.start_time THEN FALSE
             ELSE TRUE

(* The result is <<>> for None and <<start_time, end_time>> otherwise. *)
get_day_hours(ov_by_date, bh_by_weekday, day_date) ==
    IF day_date \in DOMAIN ov_by_date
    THEN LET ov == ov_by_date[day_date]
         IN  IF ov.is_closed THEN <<>>
             ELSE IF \/ ov.start_time = NoTime
                     \/ ov.end_time = NoTime
                     \/ ov.end_time <= ov.start_time THEN <<>>
             ELSE <<ov.start_time, ov.end_time>>
    ELSE IF weekday(day_date) \notin DOMAIN bh_by_weekday THEN <<>>
    ELSE LET bh == bh_by_weekday[weekday(day_date)]
         IN  IF bh.is_closed \/ bh.end_time <= bh.start_time THEN <<>>
             ELSE <<bh.start_time, bh.end_time>>

(* The loop running while cur <= day_end. *)
RECURSIVE slots_loop_past_end(_, _, _, _, _)
slots_loop_past_end(cur, day_end, booked_starts, now_dt, slots_local) ==
    IF cur <= day_end
    THEN slots_loop_past_end(cur + SLOT_STEP_MINUTES, day_end, booked_starts, now_dt,
                             IF cur >= now_dt /\ cur \notin booked_starts
                             THEN Append(slots_local, cur)
                             ELSE slots_local)
    ELSE slots_local

(* The loop running while cur + APPT_MINUTES < day_end. *)
RECURSIVE slots_loop_strict(_, _, _, _, _)
slots_loop_strict(cur, day_end, booked_starts, now_dt, slots_local) ==
    IF cur + APPT_MINUTES < day_end
    THEN slots_loop_strict(cur + SLOT_STEP_MINUTES, day_end, booked_starts, now_dt,
                           IF cur >= now_dt /\ cur \notin booked_starts
                           THEN Append(slots_local, cur)
                           ELSE slots_local)
    ELSE slots_local

(* The while loop of build_slots_for_day (lines 299-304). *)
RECURSIVE slots_loop(_, _, _, _, _)
slots_loop(cur, day_end, booked_starts, now_dt, slots_local) ==
    IF cur + APPT_MINUTES <= day_end
    THEN slots_loop(cur + SLOT_STEP_MINUTES, day_end, booked_starts, now_dt,
                    IF cur >= now_dt /\ cur \notin booked_starts
                    THEN Append(slots_local, cur)
                    ELSE slots_local)
    ELSE slots_local

booked_starts_of(booked_starts_by_date, day_date) ==
    IF day_date \in DOMAIN booked_starts_by_date
    THEN booked_starts_by_date[day_date]
    ELSE {}

build_slots_for_day(ov_by_date, bh_by_weekday, booked_starts_by_date, now_dt, day_date) ==
    LET hours == get_day_hours(ov_by_date, bh_by_weekday, day_date)
    IN  IF hours = <<>> THEN <<>>
        ELSE slots_loop(DT(day_date, hours[1]), DT(day_date, hours[2]),
                        booked_starts_of(booked_starts_by_date, day_date),
                        now_dt, <<>>)

-----------------------------------------------------------------------------
(* book(): the window scan (lines 355-368) *)

(* The scan with its loop over range(0, WINDOW_DAYS). *)
scan_window_exclusive(today, ov_by_date, bh_by_weekday, booked_starts_by_date, now_dt) ==
    LET days == [k \in 1 .. WINDOW_DAYS |-> isoformat(today + (k - 1))]
        open(d) == is_open_day(ov_by_date, bh_by_weekday, d[1])
        free(d) == build_slots_for_day(ov_by_date, bh_by_weekday,
                                       booked_starts_by_date, now_dt, d[1]) # <<>>
        open_dates == SelectSeq(days, open)
    IN  <<open_dates, SelectSeq(open_dates, free)>>

(* The for loop over i in range(0, WINDOW_DAYS + 1): the days of the       *)
(* window in order, and of them those that pass the loop's two tests.  The *)
(* result is the pair <<open_dates, available_dates>>.                     *)
scan_window(today, ov_by_date, bh_by_weekday, booked_starts_by_date, now_dt) ==
    LET days == [k \in 1 .. WINDOW_DAYS + 1 |-> isoformat(today + (k - 1))]
        open(d) == is_open_day(ov_by_date, bh_by_weekday, d[1])
        free(d) == build_slots_for_day(ov_by_date, bh_by_weekday,
                                       booked_starts_by_date, now_dt, d[1]) # <<>>
        open_dates == SelectSeq(days, open)
    IN  <<open_dates, SelectSeq(open_dates, free)>>

(* soonest_available: <<>> stands for None. *)
soonest_available_of(available_dates) ==
    IF available_dates # <<>> THEN available_dates[1] ELSE <<>>

-----------------------------------------------------------------------------
(* Responses.  Every handler ends in a response; resp is the latest one.   *)
(* The fields after kind are those of the book_slots.html page, with the   *)
(* date argument, the day and the now_dt of the request that rendered it.  *)
(* error is "" for None and otherwise names the message:                   *)
(*   "invalid"       Invalid time selected.                                *)
(*   "past"          You cannot book an appointment in the past.           *)
(*   "conflict"      Sorry, that slot was just booked. ...                 *)
(*   "not_open"      This business is not open this day. ...               *)
(*   "fully_booked"  No appointments available for this day. ...           *)

BlankResp ==
    [kind |-> "none", start_at |-> NoTime, requested |-> <<>>,
     now_dt |-> NoTime, day |-> NoTime, selected_date |-> <<>>, slots |-> <<>>,
     error |-> "", today |-> <<>>, available_dates |-> <<>>, open_dates |-> <<>>]

Response(kind) == [BlankResp EXCEPT !.kind = kind]

(* select_day without the clamp of a past day to today (lines 382-384). *)
select_day_no_clamp(selected_date, today, open_dates, available_dates, soonest_available) ==
    IF selected_date # <<>>
    THEN LET parsed == IsIso(selected_date)
             day1 == IF parsed THEN DateOf(fromisoformat(selected_date)) ELSE today
             sel1 == IF parsed THEN selected_date ELSE isoformat(today)
         IN  IF soonest_available # <<>> /\ ~InSeq(sel1, open_dates)
             THEN <<soonest_available, DateOf(fromisoformat(soonest_available)), "not_open">>
             ELSE IF /\ soonest_available # <<>>
                     /\ InSeq(sel1, open_dates)
                     /\ ~InSeq(sel1, available_dates)
             THEN <<soonest_available, DateOf(fromisoformat(soonest_available)), "fully_booked">>
             ELSE <<sel1, day1, "">>
    ELSE IF soonest_available # <<>>
         THEN <<soonest_available, DateOf(fromisoformat(soonest_available)), "">>
         ELSE <<isoformat(today), today, "">>

(* select_day without the redirect of a fully booked day (lines 393-397). *)
select_day_no_fully_booked(selected_date, today, open_dates, available_dates, soonest_available) ==
    IF selected_date # <<>>
    THEN LET parsed == IsIso(selected_date)
             day1 == IF parsed THEN DateOf(fromisoformat(selected_date)) ELSE today
             sel1 == IF parsed THEN selected_date ELSE isoformat(today)
             day2 == IF day1 < today THEN today ELSE day1
             sel2 == IF day1 < today THEN isoformat(today) ELSE sel1
         IN  IF soonest_available # <<>> /\ ~InSeq(sel2, open_dates)
             THEN <<soonest_available, DateOf(fromisoformat(soonest_available)), "not_open">>
             ELSE <<sel2, day2, "">>
    ELSE IF soonest_available # <<>>
         THEN <<soonest_available, DateOf(fromisoformat(soonest_available)), "">>
         ELSE <<isoformat(today), today, "">>

(* Lines 373-406: the selected day, as <<selected_date, day, message>>. *)
select_day(selected_date, today, open_dates, available_dates, soonest_available) ==
    IF selected_date # <<>>
    THEN LET parsed == IsIso(selected_date)
             day1 == IF parsed THEN DateOf(fromisoformat(selected_date)) ELSE today
             sel1 == IF parsed THEN selected_date ELSE isoformat(today)
             day2 == IF day1 < today THEN today ELSE day1
             sel2 == IF day1 < today THEN isoformat(today) ELSE sel1
         IN  IF soonest_available # <<>> /\ ~InSeq(sel2, open_dates)
             THEN <<soonest_available, DateOf(fromisoformat(soonest_available)), "not_open">>
             ELSE IF /\ soonest_available # <<>>
                     /\ InSeq(sel2, open_dates)
                     /\ ~InSeq(sel2, available_dates)
             THEN <<soonest_available, DateOf(fromisoformat(soonest_available)), "fully_booked">>
             ELSE <<sel2, day2, "">>
    ELSE IF soonest_available # <<>>
         THEN <<soonest_available, DateOf(fromisoformat(soonest_available)), "">>
         ELSE <<isoformat(today), today, "">>

(* Lines 203-245 and 355-368: the data a request preloads, and its scan.   *)
preload(today, now_dt, all_ovs, all_bhs, all_appts) ==
    LET ov_by_date == ov_by_date_of(all_ovs, today)
        bh_by_weekday == bh_by_weekday_of(all_bhs)
        booked_starts_by_date == booked_starts_by_date_of(all_appts, today)
        scan == scan_window(today, ov_by_date, bh_by_weekday, booked_starts_by_date, now_dt)
    IN  [today |-> today, now_dt |-> now_dt, ov_by_date |-> ov_by_date,
         bh_by_weekday |-> bh_by_weekday, booked_starts_by_date |-> booked_starts_by_date,
         open_dates |-> scan[1], available_dates |-> scan[2]]

(* Lines 373-424: the selected day and the rendered page. *)
render_book_slots(selected_date, error, pre) ==
    LET sel == select_day(selected_date, pre.today, pre.open_dates, pre.available_dates,
                          soonest_available_of(pre.available_dates))
        slots == build_slots_for_day(pre.ov_by_date, pre.bh_by_weekday,
                                     pre.booked_starts_by_date, pre.now_dt, sel[2])
    IN  [BlankResp EXCEPT !.kind = "book_slots",
                          !.requested = selected_date,
                          !.now_dt = pre.now_dt,
                          !.day = sel[2],
                          !.selected_date = sel[1],
                          !.slots = slots,
                          !.error = IF sel[3] # "" /\ error = "" THEN sel[3] ELSE error,
                          !.today = isoformat(pre.today),
                          !.available_dates = pre.available_dates,
                          !.open_dates = pre.open_dates]

-----------------------------------------------------------------------------
(* State *)

EmptyTable == [x \in {} |-> 0]

Init ==
    /\ now = DT(0, 8 * 60)
    /\ appts = {}
    /\ next_appt_id = 1
    /\ business_hours = EmptyTable
    /\ overrides = EmptyTable
    /\ pc = [s \in Sessions |-> "idle"]
    /\ pending = [s \in Sessions |-> NoTime]
    /\ resp = BlankResp

(* datetime.now() moves forward. *)
Tick ==
    /\ \E t \in ClockPoints : t > now /\ now' = t
    /\ UNCHANGED <<appts, next_appt_id, business_hours, overrides, pc, pending, resp>>

-----------------------------------------------------------------------------
(* /book *)

(* book_get creating the default weekly rows, as the hours page does. *)
book_get_creating_hours ==
    /\ \E pre \in {preload(DateOf(now), now, overrides, business_hours, appts)} :
          \E date_arg \in DateArgs : resp' = render_book_slots(date_arg, "", pre)
    /\ business_hours' = [i \in Weekdays |->
                             IF i \in DOMAIN business_hours THEN business_hours[i]
                             ELSE [start_time |-> 9 * 60, end_time |-> 17 * 60,
                                   is_closed |-> i \in {5, 6}]]
    /\ UNCHANGED <<now, appts, next_appt_id, overrides, pc, pending>>

(* GET /book?date=... *)
book_get ==
    /\ \E pre \in {preload(DateOf(now), now, overrides, business_hours, appts)} :
          \E date_arg \in DateArgs : resp' = render_book_slots(date_arg, "", pre)
    /\ UNCHANGED <<now, appts, next_appt_id, business_hours, overrides, pc, pending>>

(* Line 336: the scheduled appointment with this start_at, if any. *)
existing(all_appts, start_at) ==
    {a \in all_appts : a.start_at = start_at /\ a.status = "scheduled"}

(* book_check without its conflict query. *)
book_check_no_conflict(all_appts, start_at, now_dt) ==
    IF start_at < now_dt THEN "past" ELSE ""

(* book_check without its test of the clock. *)
book_check_no_past(all_appts, start_at, now_dt) ==
    IF existing(all_appts, start_at) # {} THEN "conflict" ELSE ""

(* Lines 329-338: "" when the request may insert, else the error. *)
book_check(all_appts, start_at, now_dt) ==
    IF start_at < now_dt THEN "past"
    ELSE IF existing(all_appts, start_at) # {} THEN "conflict"
    ELSE ""

Appointment(id, user_id, start_at, end_at, status, created_at) ==
    [id |-> id, user_id |-> user_id, start_at |-> start_at, end_at |-> end_at,
     status |-> status, created_at |-> created_at]

(* new_appointment with end_at left at start_at. *)
new_appointment_no_duration(id, account_id, start_at, created_at) ==
    Appointment(id, account_id, start_at, start_at, "scheduled", created_at)

(* Lines 340-345: the row the request adds. *)
new_appointment(id, account_id, start_at, created_at) ==
    Appointment(id, account_id, start_at, start_at + APPT_MINUTES, "scheduled", created_at)

InFlight == Cardinality({s \in Sessions : pc[s] = "commit"})

(* POST /book up to the conflict query (lines 311-338), and the page that  *)
(* a rejected request falls through to.                                    *)
book_post(s, start_str, date_arg) ==
    /\ pc[s] = "idle"
    /\ IF start_str = <<>>
       THEN /\ resp' = Response("redirect")
            /\ UNCHANGED <<pc, pending>>
       ELSE IF ~IsIso(start_str)
       THEN /\ resp' = [BlankResp EXCEPT !.kind = "book_slots",
                                         !.requested = date_arg,
                                         !.now_dt = now,
                                         !.selected_date = IF date_arg # <<>> THEN date_arg
                                                           ELSE isoformat(DateOf(now)),
                                         !.error = "invalid",
                                         !.today = isoformat(DateOf(now))]
            /\ UNCHANGED <<pc, pending>>
       ELSE LET start_at == fromisoformat(start_str)
                error == book_check(appts, start_at, now)
            IN  IF error # ""
                THEN /\ resp' = [render_book_slots(date_arg, error,
                                       preload(DateOf(now), now, overrides,
                                               business_hours, appts))
                                   EXCEPT !.start_at = start_at]
                     /\ UNCHANGED <<pc, pending>>
                ELSE /\ next_appt_id + InFlight <= MaxAppts
                     /\ pc' = [pc EXCEPT ![s] = "commit"]
                     /\ pending' = [pending EXCEPT ![s] = start_at]
                     /\ UNCHANGED resp
    /\ UNCHANGED <<now, appts, next_appt_id, business_hours, overrides>>

(* POST /book, lines 346-348: the insert, its commit and the success page. *)
book_commit(s) ==
    /\ pc[s] = "commit"
    /\ appts' = appts \cup {new_appointment(next_appt_id, s, pending[s], now)}
    /\ next_appt_id' = next_appt_id + 1
    /\ pc' = [pc EXCEPT ![s] = "idle"]
    /\ pending' = [pending EXCEPT ![s] = NoTime]
    /\ resp' = [Response("booking_success") EXCEPT !.start_at = pending[s]]
    /\ UNCHANGED <<now, business_hours, overrides>>

-----------------------------------------------------------------------------
(* /admin/appointments/<id>/cancel *)

admin_cancel_appointment(appointment_id) ==
    /\ IF \E a \in appts : a.id = appointment_id
       THEN /\ appts' = {a \in appts : a.id # appointment_id}
            /\ resp' = Response("redirect")
       ELSE /\ resp' = Response("404")
            /\ UNCHANGED appts
    /\ UNCHANGED <<now, next_appt_id, business_hours, overrides, pc, pending>>

-----------------------------------------------------------------------------
(* /business/hours *)

BusinessHour(start_time, end_time, is_closed) ==
    [start_time |-> start_time, end_time |-> end_time, is_closed |-> is_closed]

(* Lines 446-460: the row of weekday i after the form is applied. *)
posted_hours_row(rows, i, closed, start_str, end_str) ==
    LET row == IF i \in DOMAIN rows THEN rows[i] ELSE BusinessHour(T0900, T1700, FALSE)
        st == IF parse_time_or_none(start_str) # NoTime
              THEN parse_time_or_none(start_str) ELSE row.start_time
        et == IF parse_time_or_none(end_str) # NoTime
              THEN parse_time_or_none(end_str) ELSE row.end_time
    IN  IF closed THEN [row EXCEPT !.is_closed = TRUE]
        ELSE BusinessHour(st, et, FALSE)

(* POST /business/hours (lines 440-463). *)
business_hours_post(closed_days, start_str, end_str) ==
    /\ business_hours' = [i \in Weekdays |->
                             posted_hours_row(business_hours, i, i \in closed_days,
                                              start_str, end_str)]
    /\ resp' = Response("redirect")
    /\ UNCHANGED <<now, appts, next_appt_id, overrides, pc, pending>>

(* default_hours_row with every weekday open. *)
default_hours_row_all_open(i) == BusinessHour(T0900, T1700, FALSE)

(* Lines 469-474: the default row of a weekday that has none. *)
default_hours_row(i) == BusinessHour(T0900, T1700, i \in {5, 6})

(* GET /business/hours (lines 465-478). *)
business_hours_get ==
    /\ business_hours' = [i \in Weekdays |->
                             IF i \in DOMAIN business_hours THEN business_hours[i]
                             ELSE default_hours_row(i)]
    /\ resp' = Response("business_hours")
    /\ UNCHANGED <<now, appts, next_appt_id, overrides, pc, pending>>

-----------------------------------------------------------------------------
(* /business/overrides.  date is UNIQUE, so a row is identified by its     *)
(* date as well as by its id: the table is kept as date -> row and the     *)
(* override_id of a delete request names the row by its date.              *)

AvailabilityOverride(start_time, end_time, is_closed) ==
    [start_time |-> start_time, end_time |-> end_time, is_closed |-> is_closed]

(* override_error accepting every form. *)
override_error_none(closed, st, et) == ""

(* Lines 504-518: "" when the form is accepted, else the error. *)
override_error(closed, st, et) ==
    IF closed THEN ""
    ELSE IF st = NoTime \/ et = NoTime THEN "times_required"
    ELSE IF et <= st THEN "end_not_after_start"
    ELSE ""

(* POST /business/overrides (lines 486-527). *)
business_overrides_post(date_str, closed, start_str, end_str) ==
    /\ IF ~IsIso(date_str)
       THEN /\ resp' = [Response("business_overrides") EXCEPT !.error = "invalid_date"]
            /\ UNCHANGED overrides
       ELSE LET override_date == DateOf(fromisoformat(date_str))
                st == parse_time_or_none(start_str)
                et == parse_time_or_none(end_str)
                error == override_error(closed, st, et)
                row == IF closed THEN AvailabilityOverride(NoTime, NoTime, TRUE)
                       ELSE AvailabilityOverride(st, et, FALSE)
            IN  IF error # ""
                THEN /\ resp' = [Response("business_overrides") EXCEPT !.error = error]
                     /\ UNCHANGED overrides
                ELSE /\ overrides' = [d \in DOMAIN overrides \cup {override_date} |->
                                         IF d = override_date THEN row ELSE overrides[d]]
                     /\ resp' = Response("redirect")
    /\ UNCHANGED <<now, appts, next_appt_id, business_hours, pc, pending>>

(* delete_override marking the row closed instead of deleting it. *)
delete_override_closing(override_id) ==
    /\ IF override_id \in DOMAIN overrides
       THEN /\ overrides' = [overrides EXCEPT ![override_id] =
                                 AvailabilityOverride(NoTime, NoTime, TRUE)]
            /\ resp' = Response("redirect")
       ELSE /\ resp' = Response("404")
            /\ UNCHANGED overrides
    /\ UNCHANGED <<now, appts, next_appt_id, business_hours, pc, pending>>

(* POST /business/overrides/<id>/delete (lines 529-535). *)
delete_override(override_id) ==
    /\ IF override_id \in DOMAIN overrides
       THEN /\ overrides' = [d \in DOMAIN overrides \ {override_id} |-> overrides[d]]
            /\ resp' = Response("redirect")
       ELSE /\ resp' = Response("404")
            /\ UNCHANGED overrides
    /\ UNCHANGED <<now, appts, next_appt_id, business_hours, pc, pending>>

-----------------------------------------------------------------------------

(* The whole application, its booking requests taken one at a time. *)
Next ==
    \/ Tick
    \/ book_get
    \/ \E s \in OneSession, start_str \in OneStartStrs, date_arg \in PostDateArgs :
          book_post(s, start_str, date_arg)
    \/ \E s \in OneSession : book_commit(s)
    \/ \E appointment_id \in 1 .. MaxAppts : admin_cancel_appointment(appointment_id)
    \/ \E form \in HoursForms :
          business_hours_post(form.closed, form.start, form.end)
    \/ business_hours_get
    \/ \E date_str \in OverrideDateStrs, form \in OverrideForms :
          business_overrides_post(date_str, form.closed, form.start, form.end)
    \/ \E override_id \in OverrideDates : delete_override(override_id)

Spec == Init /\ [][Next]_vars

(* The booking requests of two sessions, running concurrently. *)
NextBook ==
    \/ Tick
    \/ \E s \in Sessions, start_str \in StartStrs, date_arg \in PostDateArgs :
          book_post(s, start_str, date_arg)
    \/ \E s \in Sessions : book_commit(s)
    \/ \E appointment_id \in 1 .. MaxAppts : admin_cancel_appointment(appointment_id)

SpecBook == Init /\ [][NextBook]_vars

(* The Mondays of the window of day 0, and the Monday after the window. *)
WindowMondays == {7 * k : k \in 0 .. 8}
FarMonday == WINDOW_DAYS + 3

(* A business that opens on Mondays alone, 09:30-10:00, and closes the     *)
(* Mondays of the window one override at a time, while a customer looks at *)
(* and books the Monday after the window.                                  *)
NextFar ==
    \/ business_hours_post(Weekdays \ {0}, <<9, 30>>, <<10, 0>>)
    \/ \E d \in WindowMondays : business_overrides_post(<<d>>, TRUE, <<>>, <<>>)
    \/ book_get
    \/ \E s \in OneSession : book_post(s, <<FarMonday, T0930>>, <<FarMonday>>)
    \/ \E s \in OneSession : book_commit(s)

SpecFar == Init /\ [][NextFar]_vars

-----------------------------------------------------------------------------
(* Properties of the booking requests *)

Scheduled == {a \in appts : a.status = "scheduled"}

OthersIdle(s) == \A t \in Sessions \ {s} : pc[t] = "idle"

(* The step of session s that ends its request's checks for start_str. *)
BookPostStep(s, start_str) == \E date_arg \in PostDateArgs : book_post(s, start_str, date_arg)

(* C1: however the conflict checks and inserts of concurrent requests      *)
(* interleave, no two scheduled appointments share a start_at (of the      *)
(* requests for one start, one is accepted and the others are rejected).   *)
C1_OneScheduledPerStart ==
    \A a, b \in Scheduled : a.start_at = b.start_at => a.id = b.id

(* C2, as claimed: a request made while no other request runs, for a       *)
(* start_at that has a scheduled appointment, gets the slot-taken error    *)
(* and leaves the appointments as they were.                               *)
C2_TakenSlotGetsConflict ==
    [][\A s \in Sessions, start_str \in StartStrs :
          ( /\ BookPostStep(s, start_str)
            /\ OthersIdle(s)
            /\ IsIso(start_str)
            /\ existing(appts, fromisoformat(start_str)) # {} )
          => /\ resp'.kind = "book_slots"
             /\ resp'.error = "conflict"
             /\ appts' = appts]_vars

(* C2, amended: such a request is rejected and leaves the appointments and *)
(* every session as they were; its error is the slot-taken one when        *)
(* start_at >= now and the in-the-past one when start_at < now.            *)
C2_TakenSlotRejected ==
    [][\A s \in Sessions, start_str \in StartStrs :
          ( /\ BookPostStep(s, start_str)
            /\ OthersIdle(s)
            /\ IsIso(start_str)
            /\ existing(appts, fromisoformat(start_str)) # {} )
          => /\ resp'.kind = "book_slots"
             /\ resp'.start_at = fromisoformat(start_str)
             /\ resp'.error = IF fromisoformat(start_str) >= now THEN "conflict" ELSE "past"
             /\ appts' = appts
             /\ next_appt_id' = next_appt_id
             /\ pc' = pc]_vars

(* A slot-taken rejection, with every session idle. *)
C2_Witness ==
    /\ resp.kind = "book_slots"
    /\ resp.error = "conflict"
    /\ resp.start_at >= now
    /\ existing(appts, resp.start_at) # {}
    /\ \A s \in Sessions : pc[s] = "idle"

(* C3, as claimed: every appointment starts no earlier than the time at    *)
(* which it was created.                                                   *)
C3_StartNotBeforeCreation ==
    \A a \in appts : a.start_at >= a.created_at

(* C3, amended: a request whose start_at is earlier than now gets the      *)
(* in-the-past error and creates nothing; a request passes its check only  *)
(* with start_at >= the now of that check, and every appointment is the    *)
(* start_at of a request that passed.                                      *)
C3_PastRejected ==
    [][ /\ \A s \in Sessions, start_str \in StartStrs :
             ( /\ BookPostStep(s, start_str)
               /\ IsIso(start_str)
               /\ fromisoformat(start_str) < now )
             => /\ resp'.kind = "book_slots"
                /\ resp'.error = "past"
                /\ appts' = appts
                /\ pc' = pc
        /\ \A s \in Sessions :
             (pc[s] = "idle" /\ pc'[s] = "commit") => pending'[s] >= now
        /\ \A a \in appts' \ appts :
             \E s \in Sessions : pc[s] = "commit" /\ a.start_at = pending[s] ]_vars

(* An in-the-past rejection. *)
C3_Witness ==
    /\ resp.kind = "book_slots"
    /\ resp.error = "past"
    /\ resp.start_at # NoTime
    /\ resp.start_at < resp.now_dt

(* C4: a successful book adds one appointment, of the requesting account,  *)
(* scheduled, ending 30 minutes after its start, and changes no other      *)
(* appointment; nothing else adds or changes an appointment; every stored  *)
(* appointment ends 30 minutes after its start.                            *)
C4_BookAddsOne ==
    [][ /\ \A s \in Sessions :
             (pc[s] = "commit" /\ pc'[s] = "idle")
             => \E a \in appts' \ appts :
                   /\ appts' = appts \cup {a}
                   /\ a.user_id = s
                   /\ a.status = "scheduled"
                   /\ a.start_at = pending[s]
                   /\ a.end_at = a.start_at + 30
        /\ (\A s \in Sessions : ~(pc[s] = "commit" /\ pc'[s] = "idle"))
             => appts' \subseteq appts
        /\ \A a \in appts' : a.end_at = a.start_at + 30 ]_vars

(* A booking has succeeded and its appointment is stored. *)
C4_Witness ==
    /\ resp.kind = "booking_success"
    /\ \E a \in appts : a.start_at = resp.start_at /\ a.end_at = a.start_at + 30

-----------------------------------------------------------------------------
(* Properties of resolution, of the scan and of the slot generator.  A     *)
(* book_slots page with an error other than "invalid" was rendered from    *)
(* the tables as they are now: every handler that writes a table ends in   *)
(* another response.                                                       *)

PageScanned == resp.kind = "book_slots" /\ resp.error # "invalid"

PageToday == resp.today[1]

Window(today) == today .. today + 60

PageOvByDate == ov_by_date_of(overrides, PageToday)

PageBooked(day_date) ==
    booked_starts_of(booked_starts_by_date_of(appts, PageToday), day_date)

(* The hours a date resolves to in the request that rendered the page. *)
PageHours(day_date) == get_day_hours(PageOvByDate, business_hours, day_date)

(* The instants open + 30 k with open + 30 k + 30 <= close, of a date      *)
(* whose hours are <<open, close>>.                                        *)
SlotGrid(day_date, hours) ==
    IF hours = <<>> THEN {}
    ELSE {t \in {DT(day_date, hours[1]) + 30 * k : k \in 0 .. 47} :
             t + 30 <= DT(day_date, hours[2])}

(* C5: every appointment that book accepts starts at a slot start of its   *)
(* date: inside the open interval the date resolves to and a multiple of   *)
(* 30 minutes after its open time.                                         *)
C5_AcceptedOnSlotGrid ==
    [][\A a \in appts' \ appts :
          a.start_at \in SlotGrid(DateOf(a.start_at),
                                  get_day_hours(overrides, business_hours,
                                                DateOf(a.start_at)))]_vars

(* The weekly rows a weekday is given in the stores compared by C6. *)
OtherWeeklyRows ==
    { BusinessHour(T0900, T1700, FALSE), BusinessHour(T0900, T1700, TRUE),
      BusinessHour(T1000, T0930, FALSE) }

WeeklyWith(bhs, w, row) ==
    [i \in DOMAIN bhs \cup {w} |-> IF i = w THEN row ELSE bhs[i]]

WeeklyWithout(bhs, w) == [i \in DOMAIN bhs \ {w} |-> bhs[i]]

OtherWeekly(bhs, w) ==
    {WeeklyWithout(bhs, w)} \cup {WeeklyWith(bhs, w, row) : row \in OtherWeeklyRows}

(* C6: a date that has an override record resolves the same whatever the   *)
(* weekly-hours row of its weekday is; the dates are those a request       *)
(* resolves, the days of its window and its selected day.                  *)
C6_OverrideDecides ==
    PageScanned =>
        \A d \in DOMAIN overrides \cap (Window(PageToday) \cup {resp.day}) :
            \A bhs \in OtherWeekly(business_hours, weekday(d)) :
                /\ get_day_hours(PageOvByDate, bhs, d) = PageHours(d)
                /\ is_open_day(PageOvByDate, bhs, d)
                     = is_open_day(PageOvByDate, business_hours, d)

(* The record that decides a date: its override, else its weekday's row. *)
HasOverride(d) == d \in DOMAIN overrides

HasWeekly(d) == weekday(d) \in DOMAIN business_hours

BadTimes(row) ==
    row.start_time = NoTime \/ row.end_time = NoTime \/ row.end_time <= row.start_time

(* C7: a day of the window whose override is closed, or whose override     *)
(* (whose weekly row, when it has no override) has a missing time or       *)
(* close <= open, is in neither open_dates nor available_dates.            *)
C7_ClosedDaysExcluded ==
    PageScanned =>
        \A d \in Window(PageToday) :
            ( \/ HasOverride(d) /\ (overrides[d].is_closed \/ BadTimes(overrides[d]))
              \/ ~HasOverride(d) /\ HasWeekly(d) /\ BadTimes(business_hours[weekday(d)]) )
            => /\ ~InSeq(<<d>>, resp.open_dates)
               /\ ~InSeq(<<d>>, resp.available_dates)

(* A page whose window has a day closed by its override on a weekday whose *)
(* weekly row is open.                                                     *)
C7_Witness ==
    /\ PageScanned
    /\ \E d \in Window(PageToday) :
          /\ HasOverride(d) /\ overrides[d].is_closed
          /\ HasWeekly(d)
          /\ ~business_hours[weekday(d)].is_closed
          /\ ~BadTimes(business_hours[weekday(d)])
          /\ ~InSeq(<<d>>, resp.open_dates)
          /\ ~InSeq(<<d>>, resp.available_dates)

Misconfigured(d) ==
    \/ HasOverride(d) /\ ~overrides[d].is_closed /\ BadTimes(overrides[d])
    \/ /\ ~HasOverride(d) /\ HasWeekly(d)
       /\ ~business_hours[weekday(d)].is_closed
       /\ BadTimes(business_hours[weekday(d)])

OrdinaryClosed(d) ==
    \/ HasOverride(d) /\ overrides[d].is_closed
    \/ ~HasOverride(d) /\ (~HasWeekly(d) \/ business_hours[weekday(d)].is_closed)

(* What resolution and the scan report of a day. *)
DayReport(d) ==
    [is_open_day |-> is_open_day(PageOvByDate, business_hours, d),
     day_hours |-> PageHours(d),
     in_open_dates |-> InSeq(<<d>>, resp.open_dates),
     in_available_dates |-> InSeq(<<d>>, resp.available_dates)]

(* C8: resolution and the scan report a misconfigured day differently from *)
(* an ordinary closed day.                                                 *)
C8_MisconfiguredDistinct ==
    PageScanned =>
        \A d1 \in Window(PageToday) :
            Misconfigured(d1) =>
                \A d2 \in Window(PageToday) :
                    OrdinaryClosed(d2) => DayReport(d1) # DayReport(d2)

(* C9, as claimed: the slots of the page are strictly increasing, each 30  *)
(* minutes after the one before, and each ends by the close of the day.    *)
C9_SlotsEvenlySpaced ==
    PageScanned =>
        \A i \in 1 .. Len(resp.slots) :
            /\ resp.slots[i] + 30 <= DT(resp.day, PageHours(resp.day)[2])
            /\ i < Len(resp.slots) => resp.slots[i + 1] = resp.slots[i] + 30

(* C9, amended: the slots are strictly increasing, each a multiple of 30   *)
(* minutes after the one before with every grid instant between the two a  *)
(* booked start (so exactly 30 minutes after it when no booked start lies   *)
(* between), and each ends by the close of the day.                         *)
C9_SlotsInOrderOnGrid ==
    PageScanned =>
        \A i \in 1 .. Len(resp.slots) :
            /\ resp.slots[i] + 30 <= DT(resp.day, PageHours(resp.day)[2])
            /\ i < Len(resp.slots) =>
                  /\ resp.slots[i + 1] > resp.slots[i]
                  /\ (resp.slots[i + 1] - resp.slots[i]) % 30 = 0
                  /\ \A t \in resp.slots[i] + 1 .. resp.slots[i + 1] - 1 :
                        (t - resp.slots[i]) % 30 = 0 => t \in PageBooked(resp.day)

(* A page whose slots skip a booked start. *)
C9_Witness ==
    /\ PageScanned
    /\ \E i \in 1 .. Len(resp.slots) - 1 :
          /\ resp.slots[i + 1] = resp.slots[i] + 60
          /\ resp.slots[i] + 30 \in PageBooked(resp.day)

(* The grid instants of a day that are not past and not booked. *)
FreeGrid(day_date) ==
    {t \in SlotGrid(day_date, PageHours(day_date)) :
        t >= resp.now_dt /\ t \notin PageBooked(day_date)}

(* C10: the slots of the page are exactly the grid instants of its day     *)
(* that are >= now and not booked, in increasing order; hours 09:00-17:00  *)
(* with no booking and now not after 09:00 give the 16 slots 09:00, 09:30, *)
(* ..., 16:30.                                                             *)
C10_SlotsExact ==
    PageScanned =>
        /\ {resp.slots[i] : i \in 1 .. Len(resp.slots)} = FreeGrid(resp.day)
        /\ Len(resp.slots) = Cardinality(FreeGrid(resp.day))
        /\ \A i \in 1 .. Len(resp.slots) - 1 : resp.slots[i] < resp.slots[i + 1]
        /\ ( /\ PageHours(resp.day) = <<9 * 60, 17 * 60>>
             /\ PageBooked(resp.day) = {}
             /\ resp.now_dt <= DT(resp.day, 9 * 60) )
           => resp.slots = [k \in 1 .. 16 |-> DT(resp.day, 9 * 60 + 30 * (k - 1))]

(* A page of the 16 slots of a day open 09:00-17:00. *)
C10_Witness ==
    /\ PageScanned
    /\ PageHours(resp.day) = <<9 * 60, 17 * 60>>
    /\ PageBooked(resp.day) = {}
    /\ resp.now_dt <= DT(resp.day, 9 * 60)
    /\ Len(resp.slots) = 16
    /\ resp.slots[1] = DT(resp.day, 9 * 60)
    /\ resp.slots[16] = DT(resp.day, 16 * 60 + 30)

-----------------------------------------------------------------------------
(* Properties of the offered slots, of the scan and of the selected day *)

ScheduledStarts == {a.start_at : a \in Scheduled}

(* The slots the request that rendered the page generated for a day. *)
PageSlots(day_date) ==
    build_slots_for_day(PageOvByDate, business_hours,
                        booked_starts_by_date_of(appts, PageToday),
                        resp.now_dt, day_date)

(* C11: no slot offered, for the selected day or for a scanned day, starts *)
(* before the now of its request, and none is the start_at of a scheduled  *)
(* appointment.                                                            *)
C11_NoPastNoBookedSlot ==
    PageScanned =>
        /\ \A i \in 1 .. Len(resp.slots) :
              /\ resp.slots[i] >= resp.now_dt
              /\ resp.slots[i] \notin ScheduledStarts
        /\ \A d \in Window(PageToday) :
              \A i \in 1 .. Len(PageSlots(d)) :
                 /\ PageSlots(d)[i] >= resp.now_dt
                 /\ PageSlots(d)[i] \notin ScheduledStarts

(* C12: the scan examines the 61 days today .. today + 60; open_dates is   *)
(* those of them that resolve to an open interval, in order;               *)
(* available_dates is those of open_dates that have a free slot, in order; *)
(* soonest_available, the day a request without a date argument selects,   *)
(* is the first of available_dates, and today is selected when there is    *)
(* none.                                                                   *)
C12_ScanExact ==
    PageScanned =>
        LET days == [k \in 1 .. 61 |-> <<PageToday + (k - 1)>>]
            resolves_open(d) == PageHours(d[1]) # <<>>
            has_slot(d) == FreeGrid(d[1]) # {}
        IN  /\ resp.open_dates = SelectSeq(days, resolves_open)
            /\ resp.available_dates = SelectSeq(resp.open_dates, has_slot)
            /\ \A i \in 1 .. Len(resp.available_dates) - 1 :
                  resp.available_dates[i][1] < resp.available_dates[i + 1][1]
            /\ resp.requested = <<>> =>
                  resp.selected_date = IF resp.available_dates # <<>>
                                       THEN resp.available_dates[1]
                                       ELSE resp.today

(* A page without a date argument whose scan reaches the last day of the   *)
(* window and stops there, and whose first open day is fully booked.       *)
C12_Witness ==
    /\ PageScanned
    /\ resp.requested = <<>>
    /\ InSeq(<<PageToday + 60>>, resp.open_dates)
    /\ PageHours(PageToday + 63) # <<>>
    /\ ~InSeq(<<PageToday + 63>>, resp.open_dates)
    /\ resp.available_dates # <<>>
    /\ resp.open_dates[1] # resp.available_dates[1]
    /\ resp.selected_date = resp.available_dates[1]

(* C13: a request that scans right after another, with the clock where the *)
(* first read it, finds the same open_dates and available_dates and, for   *)
(* the same date argument, the same selected day and slots; and a request  *)
(* that renders the booking page leaves the weekly hours, the overrides    *)
(* and the appointments as they were.                                      *)
C13_ScanRepeatable ==
    [][ resp'.kind = "book_slots" =>
          /\ UNCHANGED <<business_hours, overrides, appts, next_appt_id>>
          /\ (PageScanned /\ resp'.error # "invalid" /\ resp.now_dt = now) =>
                /\ resp'.open_dates = resp.open_dates
                /\ resp'.available_dates = resp.available_dates
                /\ resp'.today = resp.today
                /\ resp'.requested = resp.requested =>
                      /\ resp'.selected_date = resp.selected_date
                      /\ resp'.day = resp.day
                      /\ resp'.slots = resp.slots ]_vars

(* A page scanned at the present clock value from a store that has weekly  *)
(* hours, an override and an appointment: the state a second scan starts   *)
(* from.                                                                   *)
C13_Witness ==
    /\ PageScanned
    /\ resp.now_dt = now
    /\ resp.available_dates # <<>>
    /\ resp.open_dates # resp.available_dates
    /\ DOMAIN business_hours # {}
    /\ DOMAIN overrides # {}
    /\ appts # {}

(* The date argument of the page, when it parses: the date it names. *)
RequestedParses == resp.requested # <<>> /\ IsIso(resp.requested)

RequestedDay == DateOf(fromisoformat(resp.requested))

RequestedPast == RequestedParses /\ RequestedDay < PageToday

(* C14, as claimed: the page of a request for a past date shows today. *)
C14_PastShowsToday ==
    (PageScanned /\ RequestedPast) => resp.selected_date = resp.today

(* C14, amended: a request for a past date is answered as a request for    *)
(* today is: the page shows today, without a notice, when today is in      *)
(* available_dates or available_dates is empty; otherwise it shows the     *)
(* first of available_dates, with the "not open" notice when today is not  *)
(* in open_dates and the "fully booked" notice when it is.                 *)
C14_PastTreatedAsToday ==
    (PageScanned /\ RequestedPast) =>
        IF resp.available_dates = <<>> \/ InSeq(resp.today, resp.available_dates)
        THEN /\ resp.selected_date = resp.today
             /\ resp.day = PageToday
             /\ resp.error = ""
        ELSE /\ resp.selected_date = resp.available_dates[1]
             /\ resp.day = resp.available_dates[1][1]
             /\ resp.error = IF InSeq(resp.today, resp.open_dates)
                             THEN "fully_booked" ELSE "not_open"

(* The page of a request for a past date, showing the slots of today. *)
C14_Witness ==
    /\ PageScanned
    /\ RequestedPast
    /\ resp.selected_date = resp.today
    /\ resp.day = PageToday
    /\ resp.slots # <<>>
    /\ resp.error = ""

(* The page answers a GET: a rejected POST records its start_at. *)
PageOfGet == PageScanned /\ resp.start_at = NoTime

(* The date argument of the page names today or a later day. *)
RequestedNotPast == RequestedParses /\ RequestedDay >= PageToday

(* C15: the page of a request for a date, today or later, that is not in   *)
(* open_dates shows the first of available_dates with the "not open"       *)
(* notice when there is one; when available_dates is empty it shows no     *)
(* slots and no notice.                                                    *)
C15_NotOpenRedirects ==
    (PageOfGet /\ RequestedNotPast /\ ~InSeq(<<RequestedDay>>, resp.open_dates)) =>
        IF resp.available_dates # <<>>
        THEN /\ resp.selected_date = resp.available_dates[1]
             /\ resp.error = "not_open"
        ELSE /\ resp.slots = <<>>
             /\ resp.error = ""

(* C16: the page of a request for a date that is in open_dates and not in  *)
(* available_dates shows, when available_dates is not empty, its first     *)
(* date with the "fully booked" notice; the page of a request for a date   *)
(* that is in available_dates shows that date and no notice.               *)
C16_FullyBookedRedirects ==
    (PageOfGet /\ RequestedNotPast) =>
        /\ ( /\ InSeq(<<RequestedDay>>, resp.open_dates)
             /\ ~InSeq(<<RequestedDay>>, resp.available_dates)
             /\ resp.available_dates # <<>> )
           => /\ resp.selected_date = resp.available_dates[1]
              /\ resp.error = "fully_booked"
        /\ InSeq(<<RequestedDay>>, resp.available_dates)
           => /\ resp.day = RequestedDay
              /\ resp.error = ""

-----------------------------------------------------------------------------
(* Properties of the schedule configuration *)

(* The step of an override form posted for a date that parses. *)
OverridePostStep(d, form) ==
    business_overrides_post(<<d>>, form.closed, form.start, form.end)

(* The form is not closed and lacks a time or has close <= open. *)
BadOverrideForm(form) ==
    /\ ~form.closed
    /\ \/ parse_time_or_none(form.start) = NoTime
       \/ parse_time_or_none(form.end) = NoTime
       \/ parse_time_or_none(form.end) <= parse_time_or_none(form.start)

WellFormedOverride(row) ==
    \/ row.is_closed /\ row.start_time = NoTime /\ row.end_time = NoTime
    \/ /\ ~row.is_closed
       /\ row.start_time # NoTime /\ row.end_time # NoTime
       /\ row.end_time > row.start_time

(* C17: an override form that is not closed and lacks a time or has        *)
(* close <= open is rejected with an error and leaves the overrides as     *)
(* they were; an accepted form leaves one row for its date, the posted     *)
(* one, and the rows of the other dates as they were; a delete removes the *)
(* row it names and no other; every stored override is closed with both    *)
(* times null, or not closed with close > open.                            *)
C17_OverridesValid ==
    [][ /\ \A d \in OverrideDates, form \in OverrideForms :
             OverridePostStep(d, form) =>
                IF BadOverrideForm(form)
                THEN /\ overrides' = overrides
                     /\ resp'.kind = "business_overrides"
                     /\ resp'.error \in {"times_required", "end_not_after_start"}
                ELSE /\ DOMAIN overrides' = DOMAIN overrides \cup {d}
                     /\ overrides'[d].is_closed = form.closed
                     /\ \A e \in DOMAIN overrides \ {d} : overrides'[e] = overrides[e]
        /\ \A d \in OverrideDates :
             delete_override(d) =>
                /\ DOMAIN overrides' = DOMAIN overrides \ {d}
                /\ \A e \in DOMAIN overrides' : overrides'[e] = overrides[e]
        /\ \A d \in DOMAIN overrides' : WellFormedOverride(overrides'[d]) ]_vars

(* A form with close <= open has just been rejected, and the override that *)
(* was stored for a date is still there.                                   *)
C17_Witness ==
    /\ resp.kind = "business_overrides"
    /\ resp.error = "end_not_after_start"
    /\ \E d \in DOMAIN overrides : ~overrides[d].is_closed

(* The hours and the slots the weekly schedule alone gives a date. *)
WeeklyHoursOf(d) == get_day_hours(EmptyTable, business_hours, d)

WeeklySlotsOf(d) ==
    build_slots_for_day(EmptyTable, business_hours,
                        booked_starts_by_date_of(appts, DateOf(now)), now, d)

HoursPostStep ==
    \E form \in HoursForms : business_hours_post(form.closed, form.start, form.end)

(* C19: a read of the weekly hours gives every weekday that has no record  *)
(* the default one, 09:00-17:00, open on weekdays 0..4 and closed on 5 and *)
(* 6, and leaves every existing record as it is, so that a read that       *)
(* follows a read changes nothing; after a read or an update there is one  *)
(* record for each weekday 0..6.                                           *)
C19_HoursDefaults ==
    [][ /\ business_hours_get =>
             /\ \A i \in 0 .. 6 :
                   /\ i \in DOMAIN business_hours'
                   /\ business_hours'[i] =
                        IF i \in DOMAIN business_hours THEN business_hours[i]
                        ELSE [start_time |-> 9 * 60, end_time |-> 17 * 60,
                              is_closed |-> i >= 5]
             /\ DOMAIN business_hours = 0 .. 6 => business_hours' = business_hours
        /\ (business_hours_get \/ HoursPostStep) => DOMAIN business_hours' = 0 .. 6
        /\ DOMAIN business_hours = 0 .. 6 => DOMAIN business_hours' = 0 .. 6 ]_vars

(* The hours page has been read and the seven default records are stored. *)
C19_Witness ==
    /\ resp.kind = "business_hours"
    /\ DOMAIN business_hours = 0 .. 6
    /\ \A i \in 0 .. 4 : business_hours[i] = BusinessHour(9 * 60, 17 * 60, FALSE)
    /\ \A i \in 5 .. 6 : business_hours[i] = BusinessHour(9 * 60, 17 * 60, TRUE)

-----------------------------------------------------------------------------
(* Properties of cancellation *)

(* The instant lies inside the open interval its date resolves to. *)
InsideOpenHours(start_at, ovs, bhs) ==
    LET hours == get_day_hours(ovs, bhs, DateOf(start_at))
    IN  /\ hours # <<>>
        /\ start_at >= DT(DateOf(start_at), hours[1])
        /\ start_at + 30 <= DT(DateOf(start_at), hours[2])

(* C20: once the admin has cancelled a scheduled appointment whose start   *)
(* is not past, a request to book that start is accepted, and when the     *)
(* start lies inside the open hours of its day a request for the booking   *)
(* page finds it among the slots of that day.                              *)
C20_CancelFreesSlot ==
    [][ \A a \in appts :
          (a.status = "scheduled" /\ a.start_at >= now /\ admin_cancel_appointment(a.id)) =>
             /\ book_check(appts', a.start_at, now') = ""
             /\ InsideOpenHours(a.start_at, overrides', business_hours') =>
                   InSeq(a.start_at,
                         build_slots_for_day(ov_by_date_of(overrides', DateOf(now')),
                                             business_hours',
                                             booked_starts_by_date_of(appts', DateOf(now')),
                                             now', DateOf(a.start_at))) ]_vars

(* C21: no two scheduled appointments overlap in time: of two distinct     *)
(* ones, one ends by the start of the other.                               *)
C21_NoOverlap ==
    \A a, b \in Scheduled :
        a.id # b.id => (a.end_at <= b.start_at \/ b.end_at <= a.start_at)

-----------------------------------------------------------------------------
(* Properties of the page as a whole *)

(* C22: on a page whose scan found an available date, whatever the date    *)
(* argument was, the selected date is one of available_dates and the slots *)
(* shown are the slots of that date, and there is at least one.            *)
C22_SelectedIsAvailable ==
    (PageScanned /\ resp.available_dates # <<>>) =>
        /\ InSeq(resp.selected_date, resp.available_dates)
        /\ resp.day = resp.selected_date[1]
        /\ resp.slots # <<>>
        /\ {resp.slots[i] : i \in 1 .. Len(resp.slots)} = FreeGrid(resp.selected_date[1])
        /\ \A i \in 1 .. Len(resp.slots) - 1 : resp.slots[i] < resp.slots[i + 1]

(* A page requested for today, which is open and fully booked, showing the *)
(* slots of a later date.                                                  *)
C22_Witness ==
    /\ PageScanned
    /\ RequestedParses
    /\ RequestedDay = PageToday
    /\ InSeq(resp.today, resp.open_dates)
    /\ resp.error = "fully_booked"
    /\ resp.selected_date # resp.today
    /\ InSeq(resp.selected_date, resp.available_dates)
    /\ resp.slots # <<>>

(* C23: a read of the hours page leaves the scan of a booking request as   *)
(* it was: open_dates, available_dates and the slots of every day of the   *)
(* window are the same after the read as before it.                        *)
C23_HoursReadKeepsScan ==
    [][ business_hours_get =>
          \A before \in {preload(DateOf(now), now, overrides, business_hours, appts)},
             after \in {preload(DateOf(now'), now', overrides', business_hours', appts')} :
              /\ after.open_dates = before.open_dates
              /\ after.available_dates = before.available_dates
              /\ \A d \in Window(DateOf(now)) :
                    build_slots_for_day(after.ov_by_date, after.bh_by_weekday,
                                        after.booked_starts_by_date, after.now_dt, d)
                    = build_slots_for_day(before.ov_by_date, before.bh_by_weekday,
                                          before.booked_starts_by_date, before.now_dt, d) ]_vars

====
